---------------------------- MODULE Spec2Model ----------------------------
(***************************************************************************)
(* showBPP (src/src/main.rs): scans files and directories for videos,      *)
(* probes each with ffprobe, renames AV1 files with the marker "_AV1" and  *)
(* prints the bits-per-pixel of every other file.                          *)
(*                                                                         *)
(* Strings are sequences of one-character strings, so that file_stem,      *)
(* extension, to_uppercase, ends_with, find('/') and f64::from_str are     *)
(* computed on the characters as the code computes them.  A path is the    *)
(* sequence of its components.                                             *)
(***************************************************************************)
EXTENDS Integers, Sequences, FiniteSets, TLC

VARIABLES
    fs,           \* the filesystem: existing path -> [kind, id]
    fs0,          \* the filesystem when the first run started (never changes)
    args,         \* Args.paths, the input paths of the invocation
    video_files,  \* main's candidate list, after the sort
    idx,          \* position of the driver loop in video_files (1-based)
    pc,           \* where main is
    exit,         \* the process's exit status
    calls,        \* the calls made by the last step, in order
    out,          \* the lines printed by the last step, in order
    probe,        \* the ProbeResult the last step worked on
    nprobe,       \* per path: run_ffprobe calls in this run
    nrename,      \* per path: rename_with_suffix calls in this run
    nmeasure      \* per path: calculate_bpp calls in this run

vars == <<fs, fs0, args, video_files, idx, pc, exit, calls, out, probe,
          nprobe, nrename, nmeasure>>

-----------------------------------------------------------------------------
(* Bounds of the model.                                                    *)

\* at most this many input paths on the command line
MaxArgs == 2
\* at most this many files exist in the modelled directory tree
MaxFiles == 3

-----------------------------------------------------------------------------
(* Characters and strings.                                                 *)

Lower == <<"a","b","c","d","e","f","g","h","i","j","k","l","m",
           "n","o","p","q","r","s","t","u","v","w","x","y","z">>
Upper == <<"A","B","C","D","E","F","G","H","I","J","K","L","M",
           "N","O","P","Q","R","S","T","U","V","W","X","Y","Z">>
Digits == <<"0","1","2","3","4","5","6","7","8","9">>

\* the characters of the model in code-point order (char comparison)
Ascii == <<"+", "-", ".", "/">> \o Digits \o Upper \o <<"_">> \o Lower

IndexOf(seq, c) == CHOOSE i \in 1..Len(seq) : seq[i] = c
Has(seq, c) == \E i \in 1..Len(seq) : seq[i] = c

\* char::to_uppercase / to_lowercase on the model's characters
to_uppercase_char(c) == IF Has(Lower, c) THEN Upper[IndexOf(Lower, c)] ELSE c
to_lowercase_char(c) == IF Has(Upper, c) THEN Lower[IndexOf(Upper, c)] ELSE c

\* str::to_uppercase / str::to_lowercase
to_uppercase(s) == [i \in 1..Len(s) |-> to_uppercase_char(s[i])]
to_lowercase(s) == [i \in 1..Len(s) |-> to_lowercase_char(s[i])]

\* str::ends_with
ends_with(s, suffix) ==
    /\ Len(s) >= Len(suffix)
    /\ SubSeq(s, Len(s) - Len(suffix) + 1, Len(s)) = suffix

\* position of the last '.' of a file name, 0 when there is none
LastDot(name) ==
    IF Has(name, ".")
    THEN CHOOSE i \in 1..Len(name) :
            name[i] = "." /\ \A j \in (i+1)..Len(name) : name[j] # "."
    ELSE 0

None == [some |-> FALSE]
Some(v) == [some |-> TRUE, v |-> v]

\* Path::file_name: the last component
file_name(path) == path[Len(path)]

\* Path::file_stem: the name without its extension; the whole name when it
\* has no '.', or starts with its only '.'
file_stem(path) ==
    LET name == file_name(path)
        d == LastDot(name)
    IN IF d <= 1 THEN Some(name) ELSE Some(SubSeq(name, 1, d - 1))

\* Path::extension: what follows the last '.', unless the name has no '.'
\* or nothing stands before its last '.'
extension(path) ==
    LET name == file_name(path)
        d == LastDot(name)
    IN IF d <= 1 THEN None ELSE Some(SubSeq(name, d + 1, Len(name)))

\* Path::parent and Path::join
parent(path) == SubSeq(path, 1, Len(path) - 1)
join(dir, name) == Append(dir, name)

-----------------------------------------------------------------------------
(* Path classifier.                                                        *)

VIDEO_EXTENSIONS ==
    { <<"m","p","4">>, <<"m","k","v">>, <<"a","v","i">>, <<"m","o","v">>,
      <<"w","m","v">>, <<"f","l","v">>, <<"w","e","b","m">>, <<"m","4","v">>,
      <<"t","s">>, <<"m","t","s">>, <<"m","2","t","s">>, <<"m","p","g">>,
      <<"m","p","e","g">>, <<"3","g","p">>, <<"o","g","v">>,
      <<"r","m","v","b">>, <<"v","o","b">> }

SKIPPED_SUFFIXES == { <<"_","A","V","1">> }

\* the suffix main passes to rename_with_suffix
AV1_SUFFIX == <<"_","A","V","1">>

\* is_video_file without to_lowercase
is_video_file_CaseSensitive(path) ==
    LET ext == extension(path)
    IN ext.some /\ ext.v \in VIDEO_EXTENSIONS

is_video_file(path) ==
    LET ext == extension(path)
    IN ext.some /\ to_lowercase(ext.v) \in VIDEO_EXTENSIONS

\* should_skip_file looking at the whole file name instead of the stem
should_skip_file_WholeName(path) ==
    \E suffix \in SKIPPED_SUFFIXES :
       ends_with(to_uppercase(file_name(path)), suffix)

should_skip_file(path) ==
    LET stem == file_stem(path)
    IN stem.some /\ \E suffix \in SKIPPED_SUFFIXES :
                        ends_with(to_uppercase(stem.v), suffix)

-----------------------------------------------------------------------------
(* f64 values.  A finite value is the exact fraction n/d in lowest terms   *)
(* (rounding is not modelled, and -0.0 is 0.0); NaN and the infinities are *)
(* values of their own, with IEEE 754 arithmetic and comparison.           *)

RECURSIVE GCD(_, _)
GCD(a, b) == IF b = 0 THEN a ELSE GCD(b, a % b)

Abs(x) == IF x < 0 THEN -x ELSE x
Sign(x) == IF x < 0 THEN -1 ELSE IF x = 0 THEN 0 ELSE 1

NaN == [k |-> "nan"]
Inf(s) == [k |-> "inf", s |-> s]
Fin(n, d) ==
    LET g == GCD(Abs(n), Abs(d))
    IN [k |-> "fin", n |-> (Sign(d) * n) \div g, d |-> Abs(d) \div g]

FZero == Fin(0, 1)
IsZero(a) == a.k = "fin" /\ a.n = 0
\* the sign of a value that is not NaN
FSign(a) == IF a.k = "inf" THEN a.s ELSE Sign(a.n)

\* a * b
FMul(a, b) ==
    IF a.k = "nan" \/ b.k = "nan" THEN NaN
    ELSE IF a.k = "inf" \/ b.k = "inf"
         THEN IF IsZero(a) \/ IsZero(b) THEN NaN ELSE Inf(FSign(a) * FSign(b))
         ELSE Fin(a.n * b.n, a.d * b.d)

\* a / b
FDiv(a, b) ==
    IF a.k = "nan" \/ b.k = "nan" THEN NaN
    ELSE IF a.k = "inf"
         THEN IF b.k = "inf" THEN NaN
              ELSE Inf(a.s * (IF IsZero(b) THEN 1 ELSE FSign(b)))
         ELSE IF b.k = "inf" THEN FZero
              ELSE IF IsZero(b)
                   THEN IF IsZero(a) THEN NaN ELSE Inf(FSign(a))
                   ELSE Fin(a.n * b.d, a.d * b.n)

\* a < b and a <= b: false whenever an operand is NaN
FLt(a, b) ==
    /\ a.k # "nan" /\ b.k # "nan"
    /\ IF a.k = "inf" THEN a.s = -1 /\ ~(b.k = "inf" /\ b.s = -1)
       ELSE IF b.k = "inf" THEN b.s = 1
            ELSE a.n * b.d < b.n * a.d
FLe(a, b) == a.k # "nan" /\ b.k # "nan" /\ (a = b \/ FLt(a, b))

\* u32 as f64
U32ToF64(n) == Fin(n, 1)

IsDigit(c) == Has(Digits, c)
AllDigits(s) == \A i \in 1..Len(s) : IsDigit(s[i])
DigitVal(c) == IndexOf(Digits, c) - 1

RECURSIVE NatOf(_)
NatOf(s) == IF s = <<>> THEN 0
            ELSE 10 * NatOf(SubSeq(s, 1, Len(s) - 1)) + DigitVal(s[Len(s)])

RECURSIVE Pow10(_)
Pow10(k) == IF k = 0 THEN 1 ELSE 10 * Pow10(k - 1)

FirstIndex(s, c) == CHOOSE i \in 1..Len(s) : s[i] = c /\ \A j \in 1..(i-1) : s[j] # c

\* the decimal  Digit+ | Digit+ '.' Digit* | Digit* '.' Digit+
ParseDecimal(s) ==
    LET Split(int, frac) ==
            IF AllDigits(int) /\ AllDigits(frac) /\ Len(int) + Len(frac) > 0
            THEN Some(Fin(NatOf(int \o frac), Pow10(Len(frac))))
            ELSE None
        At(d) == Split(SubSeq(s, 1, d - 1), SubSeq(s, d + 1, Len(s)))
    IN IF Has(s, ".") THEN At(FirstIndex(s, "."))
       ELSE IF s # <<>> /\ AllDigits(s) THEN Some(Fin(NatOf(s), 1))
       ELSE None

\* the exponent of a number: Sign? Digit+
ParseExp(s) ==
    LET Signed(sgn, digits) ==
            IF digits # <<>> /\ AllDigits(digits)
            THEN Some(sgn * NatOf(digits)) ELSE None
    IN IF s # <<>> /\ s[1] = "-" THEN Signed(-1, Tail(s))
       ELSE IF s # <<>> /\ s[1] = "+" THEN Signed(1, Tail(s))
       ELSE Signed(1, s)

\* Number ::= decimal ( ('e' | 'E') exponent )?
ParseNumber(s) ==
    LET Scaled(m, x) ==
            IF m.some /\ x.some
            THEN Some(FMul(m.v, IF x.v >= 0 THEN Fin(Pow10(x.v), 1)
                                ELSE Fin(1, Pow10(-x.v))))
            ELSE None
        At(e) == Scaled(ParseDecimal(SubSeq(s, 1, e - 1)),
                        ParseExp(SubSeq(s, e + 1, Len(s))))
    IN IF Has(s, "e") THEN At(FirstIndex(s, "e"))
       ELSE IF Has(s, "E") THEN At(FirstIndex(s, "E"))
       ELSE ParseDecimal(s)

\* f64::from_str: Sign? ( 'inf' | 'infinity' | 'nan' | Number ), letters in
\* either case, no surrounding white space; None is Err
f64_from_str(s) ==
    LET Negate(m) == IF m.some THEN Some(Fin(-m.v.n, m.v.d)) ELSE None
        Word(l) == l \in { <<"n","a","n">>, <<"i","n","f">>,
                           <<"i","n","f","i","n","i","t","y">> }
        Unsigned(sgn, body, l) ==
            IF l = <<"n","a","n">> THEN Some(NaN)
            ELSE IF Word(l) THEN Some(Inf(sgn))
            ELSE IF sgn = -1 THEN Negate(ParseNumber(body))
            ELSE ParseNumber(body)
    IN IF s # <<>> /\ s[1] = "-" THEN Unsigned(-1, Tail(s), to_lowercase(Tail(s)))
       ELSE IF s # <<>> /\ s[1] = "+" THEN Unsigned(1, Tail(s), to_lowercase(Tail(s)))
       ELSE Unsigned(1, s, to_lowercase(s))

-----------------------------------------------------------------------------
(* Metric engine.                                                          *)

parse_frame_rate(r_frame_rate) ==
    LET Ratio(num, den) ==
            IF num.some /\ den.some /\ ~IsZero(den.v)
            THEN Some(FDiv(num.v, den.v))
            ELSE None
        At(pos) ==
            Ratio(f64_from_str(SubSeq(r_frame_rate, 1, pos - 1)),
                  f64_from_str(SubSeq(r_frame_rate, pos + 1, Len(r_frame_rate))))
    IN IF Has(r_frame_rate, "/") THEN At(FirstIndex(r_frame_rate, "/"))
       ELSE f64_from_str(r_frame_rate)

IsVideo(s) == s.codec_type = Some("video")
IsSizedVideo(s) == IsVideo(s) /\ s.width.some /\ s.height.some

\* streams.iter().find(..): the first video stream, and the first video
\* stream that has a width and a height
FindVideo(streams) ==
    IF \E i \in 1..Len(streams) : IsVideo(streams[i])
    THEN Some(streams[CHOOSE i \in 1..Len(streams) :
                 IsVideo(streams[i]) /\ \A j \in 1..(i-1) : ~IsVideo(streams[j])])
    ELSE None

FindSizedVideo(streams) ==
    IF \E i \in 1..Len(streams) : IsSizedVideo(streams[i])
    THEN Some(streams[CHOOSE i \in 1..Len(streams) :
                 IsSizedVideo(streams[i])
                 /\ \A j \in 1..(i-1) : ~IsSizedVideo(streams[j])])
    ELSE None

\* the bitrate of a stream: bit_rate if it parses, else the tag "BPS" if it
\* parses, else 0.0
StreamBitrate(video_stream) ==
    LET OrZero(tagged) == IF tagged.some THEN tagged.v ELSE FZero
        OrTag(direct) ==
            IF direct.some THEN direct.v
            ELSE IF video_stream.tags.some /\ "BPS" \in DOMAIN video_stream.tags.v
                 THEN OrZero(f64_from_str(video_stream.tags.v["BPS"]))
                 ELSE FZero
    IN IF video_stream.bit_rate.some
       THEN OrTag(f64_from_str(video_stream.bit_rate.v))
       ELSE OrTag(None)

\* the colour of the printed percentage
BppColor(bpp_value) ==
    IF FLt(bpp_value, Fin(1, 10)) THEN "Green"
    ELSE IF FLt(bpp_value, Fin(15, 100)) THEN "Yellow" ELSE "Red"

\* the line calculate_bpp prints
BppLine(bitrate, width, height, fps, bpp_value) ==
    [t |-> "BPP", bitrate |-> bitrate, width |-> width, height |-> height,
     fps |-> fps, bpp |-> bpp_value, color |-> BppColor(bpp_value)]

\* the check that ends calculate_bpp: any of the four is <= 0.0
Unmeasurable(width, height, fps, bitrate) ==
    \/ FLe(width, FZero) \/ FLe(height, FZero)
    \/ FLe(fps, FZero) \/ FLe(bitrate, FZero)

\* calculate_bpp: [ret: what it returns, out: what it prints]
calculate_bpp(p) ==
    LET Nothing == [ret |-> None, out |-> <<>>]
        Report(width, height, fps, bitrate, bpp_value) ==
            [ret |-> IF Unmeasurable(width, height, fps, bitrate)
                     THEN None ELSE Some(bpp_value),
             out |-> <<BppLine(bitrate, width, height, fps, bpp_value)>>]
        Ratio(width, height, fps, bitrate) ==
            Report(width, height, fps, bitrate,
                   FDiv(bitrate, FMul(FMul(width, height), fps)))
        WithRate(video_stream, fps) ==
            IF ~fps.some THEN Nothing
            ELSE Ratio(U32ToF64(video_stream.width.v),
                       U32ToF64(video_stream.height.v),
                       fps.v, StreamBitrate(video_stream))
        WithStream(found) ==
            IF ~found.some THEN Nothing
            ELSE IF ~found.v.r_frame_rate.some THEN Nothing
            ELSE WithRate(found.v, parse_frame_rate(found.v.r_frame_rate.v))
    IN WithStream(FindSizedVideo(p.streams))

\* get_codec_name looking for the stream calculate_bpp looks for
get_codec_name_Sized(p) ==
    LET found == FindSizedVideo(p.streams)
    IN IF found.some THEN found.v.codec_name ELSE None

\* get_codec_name: the codec of the first video stream
get_codec_name(p) ==
    LET found == FindVideo(p.streams)
    IN IF found.some THEN found.v.codec_name ELSE None

\* main's codec: get_codec_name(..).unwrap_or("unknown").to_uppercase()
CodecOf(p) ==
    LET name == get_codec_name(p)
    IN to_uppercase(IF name.some THEN name.v ELSE <<"u","n","k","n","o","w","n">>)

IsAV1(codec) == to_uppercase(codec) = <<"A","V","1">>

-----------------------------------------------------------------------------
(* The filesystem: a function from the existing paths to [kind, id].  id   *)
(* names the content (the path it had when the first run started), so a    *)
(* moved, replaced or lost file shows.                                     *)

exists(f, path) == path \in DOMAIN f
is_file(f, path) == exists(f, path) /\ f[path].kind = "file"
is_dir(f, path) == exists(f, path) /\ f[path].kind = "dir"

IsPrefix(p, q) == Len(p) <= Len(q) /\ SubSeq(q, 1, Len(p)) = p

Code(c) == IndexOf(Ascii, c)

\* -1, 0, 1: a before, equal to, after b, character by character
RECURSIVE StrCmp(_, _)
StrCmp(a, b) ==
    IF a = <<>> THEN (IF b = <<>> THEN 0 ELSE -1)
    ELSE IF b = <<>> THEN 1
    ELSE IF Code(a[1]) < Code(b[1]) THEN -1
    ELSE IF Code(a[1]) > Code(b[1]) THEN 1
    ELSE StrCmp(Tail(a), Tail(b))

\* the paths of set S as a sequence ordered by their file names, ascending
\* when asc, else descending
RECURSIVE ByName(_, _)
ByName(S, asc) ==
    IF S = {} THEN <<>>
    ELSE LET m == CHOOSE x \in S : \A y \in S \ {x} :
                     IF asc THEN StrCmp(file_name(x), file_name(y)) < 0
                     ELSE StrCmp(file_name(x), file_name(y)) > 0
         IN <<m>> \o ByName(S \ {m}, asc)

RECURSIVE Concat(_)
Concat(seqs) == IF seqs = <<>> THEN <<>> ELSE Head(seqs) \o Concat(Tail(seqs))

\* the entries of directory dir in the order read_dir yields them, which is
\* the operating system's: ascending by name when asc, else descending
ReadDir(f, dir, asc) ==
    ByName({p \in DOMAIN f : Len(p) = Len(dir) + 1 /\ parent(p) = dir}, asc)

\* WalkDir::new(root): root itself, then depth first every entry below it
RECURSIVE WalkDir(_, _, _)
WalkDir(f, root, asc) ==
    IF ~is_dir(f, root) THEN <<root>>
    ELSE LET kids == ReadDir(f, root, asc)
         IN <<root>> \o Concat([i \in 1..Len(kids) |-> WalkDir(f, kids[i], asc)])

\* what one input path contributes to collect_video_files
CollectInput(f, path, asc) ==
    LET Eligible(p) == is_file(f, p) /\ is_video_file(p) /\ ~should_skip_file(p)
    IN IF ~exists(f, path) THEN <<>>
       ELSE IF is_file(f, path)
            THEN (IF is_video_file(path) /\ ~should_skip_file(path)
                  THEN <<path>> ELSE <<>>)
            ELSE IF is_dir(f, path)
                 THEN SelectSeq(WalkDir(f, path, asc), Eligible)
                 ELSE <<>>

\* collect_video_files: the files, in the order they were found
collect_video_files(f, paths, asc) ==
    Concat([i \in 1..Len(paths) |-> CollectInput(f, paths[i], asc)])

\* the warnings collect_video_files prints
CollectWarnings(f, paths) ==
    LET Missing(p) == ~exists(f, p)
        missing == SelectSeq(paths, Missing)
    IN [i \in 1..Len(missing) |-> [t |-> "Warning", path |-> missing[i]]]

\* Path::to_string_lossy: the components joined by '/'
RECURSIVE to_string_lossy(_)
to_string_lossy(path) ==
    IF path = <<>> THEN <<>>
    ELSE IF Len(path) = 1 THEN path[1]
    ELSE path[1] \o <<"/">> \o to_string_lossy(Tail(path))

\* the longest run of digits s starts with
RECURSIVE DigitRun(_)
DigitRun(s) ==
    IF s = <<>> \/ ~IsDigit(s[1]) THEN <<>> ELSE <<s[1]>> \o DigitRun(Tail(s))

\* natural_sort_rs::natural_cmp: runs of digits compare by their number,
\* everything else character by character
RECURSIVE natural_cmp(_, _)
natural_cmp(a, b) ==
    IF a = <<>> THEN (IF b = <<>> THEN 0 ELSE -1)
    ELSE IF b = <<>> THEN 1
    ELSE IF IsDigit(a[1]) /\ IsDigit(b[1])
         THEN LET ra == DigitRun(a)
                  rb == DigitRun(b)
              IN IF NatOf(ra) < NatOf(rb) THEN -1
                 ELSE IF NatOf(ra) > NatOf(rb) THEN 1
                 ELSE natural_cmp(SubSeq(a, Len(ra) + 1, Len(a)),
                                  SubSeq(b, Len(rb) + 1, Len(b)))
         ELSE IF Code(a[1]) < Code(b[1]) THEN -1
         ELSE IF Code(a[1]) > Code(b[1]) THEN 1
         ELSE natural_cmp(Tail(a), Tail(b))

\* x put into the sorted sequence, behind the elements that do not come
\* after it (Vec::sort_by is stable)
RECURSIVE Insert(_, _)
Insert(sorted, x) ==
    IF sorted = <<>> THEN <<x>>
    ELSE IF natural_cmp(to_string_lossy(x), to_string_lossy(Head(sorted))) < 0
         THEN <<x>> \o sorted
         ELSE <<Head(sorted)>> \o Insert(Tail(sorted), x)

\* video_files.sort_by(natural_cmp of the path strings)
RECURSIVE sort_by(_)
sort_by(files) ==
    IF files = <<>> THEN <<>>
    ELSE Insert(sort_by(SubSeq(files, 1, Len(files) - 1)), files[Len(files)])

-----------------------------------------------------------------------------
(* Classification and marking.                                             *)

\* fs::rename(from, to) when it succeeds: the entry (a directory with all
\* below it) moves to `to`, replacing what was there
FsRename(f, from, to) ==
    LET Moves(p) == IsPrefix(from, p)
        Dest(p) == to \o SubSeq(p, Len(from) + 1, Len(p))
        moved == {Dest(p) : p \in {q \in DOMAIN f : Moves(q)}}
        kept == {p \in DOMAIN f : ~Moves(p) /\ ~IsPrefix(to, p)}
        Src(p) == CHOOSE q \in DOMAIN f : Moves(q) /\ Dest(q) = p
    IN [p \in kept \cup moved |-> IF p \in moved THEN f[Src(p)] ELSE f[p]]

\* the new name with the suffix behind the extension
NewPath_AfterExtension(original, suffix) ==
    join(parent(original), file_name(original) \o suffix)

\* the path rename_with_suffix computes
NewPath(original, suffix) ==
    LET stem == file_stem(original).v
        ext == extension(original)
        e == IF ext.some THEN ext.v ELSE <<>>
        new_name == IF e = <<>> THEN stem \o suffix
                    ELSE stem \o suffix \o <<".">> \o e
    IN join(parent(original), new_name)

\* rename_with_suffix without the check of the target
rename_with_suffix_NoCheck(f, original, suffix, io_ok) ==
    LET new_path == NewPath(original, suffix)
    IN IF ~exists(f, original) \/ ~io_ok
       THEN [ok |-> FALSE, err |-> "RenameFailed", fs |-> f, out |-> <<>>]
       ELSE [ok |-> TRUE, err |-> "",
             fs |-> FsRename(f, original, new_path),
             out |-> <<[t |-> "Renamed", from |-> original, to |-> new_path]>>]

\* rename_with_suffix: [ok, fs: the filesystem afterwards, out: the lines
\* printed].  io_ok: whether the operating system carries out the rename
\* of an existing file
rename_with_suffix(f, original, suffix, io_ok) ==
    LET new_path == NewPath(original, suffix)
    IN IF exists(f, new_path)
       THEN [ok |-> FALSE, err |-> "TargetExists", fs |-> f, out |-> <<>>]
       ELSE IF ~exists(f, original) \/ ~io_ok
            THEN [ok |-> FALSE, err |-> "RenameFailed", fs |-> f, out |-> <<>>]
            ELSE [ok |-> TRUE, err |-> "",
                  fs |-> FsRename(f, original, new_path),
                  out |-> <<[t |-> "Renamed", from |-> original, to |-> new_path]>>]

-----------------------------------------------------------------------------
(* The inputs of the model.                                                *)

Str_d == <<"d">>
Str_s == <<"s">>
Str_e == <<"e">>
Name_2_mp4 == <<"2",".","m","p","4">>
Name_2_AV1_mp4 == <<"2","_","A","V","1",".","m","p","4">>
Name_10_MKV == <<"1","0",".","M","K","V">>
Name_c_av1_ts == <<"c","_","a","v","1",".","t","s">>
Name_n_txt == <<"n",".","t","x","t">>

DirD == <<Str_d>>
DirDS == <<Str_d, Str_s>>
\* a path that never exists
Missing == << <<"q">> >>

\* the places where a file may exist when the first run starts
FilePool ==
    { <<Str_d, Name_2_mp4>>, <<Str_d, Name_2_AV1_mp4>>,
      <<Str_d, Str_s, Name_2_mp4>>, <<Str_d, Str_s, Name_10_MKV>>,
      <<Str_d, Str_s, Name_c_av1_ts>> }

\* the paths an invocation may name
ArgPool == { DirD, <<Str_d, Name_2_mp4>>, Missing }

\* a filesystem holding the given files and directories
MkFs(files, dirs) ==
    [p \in files \cup dirs |->
        [kind |-> IF p \in dirs THEN "dir" ELSE "file", id |-> p]]

SeqsUpTo(S, n) == UNION {[1..k -> S] : k \in 0..n}

Stream(ct, cn, w, h, fr, br, tg) ==
    [codec_type |-> ct, codec_name |-> cn, width |-> w, height |-> h,
     r_frame_rate |-> fr, bit_rate |-> br, tags |-> tg]

AudioStream ==
    Stream(Some("audio"), Some(<<"a","a","c">>), None, None,
           Some(<<"0","/","0">>), Some(<<"1","2","8","0","0","0">>), None)

Str_25_1 == <<"2","5","/","1">>
Str_8000000 == <<"8","0","0","0","0","0","0">>

\* the probe results the driver meets
DriverProbes ==
    { \* an AV1 video, codec in lower case
      [streams |-> <<Stream(Some("video"), Some(<<"a","v","1">>), Some(1920),
                            Some(1080), Some(Str_25_1), Some(Str_8000000), None)>>],
      \* audio first, then an AV1 video in mixed case that reports no size
      [streams |-> <<AudioStream,
                     Stream(Some("video"), Some(<<"A","v","1">>), None, None,
                            None, None, None)>>],
      \* an AV1 video, codec in upper case, that reports no frame rate
      [streams |-> <<Stream(Some("video"), Some(<<"A","V","1">>), Some(1920),
                            Some(1080), None, None, None)>>],
      \* an H.264 video with every field
      [streams |-> <<Stream(Some("video"), Some(<<"h","2","6","4">>), Some(1920),
                            Some(1080), Some(Str_25_1), Some(Str_8000000), None)>>],
      \* a video of unnamed codec and unknown bitrate
      [streams |-> <<Stream(Some("video"), None, Some(1920), Some(1080),
                            Some(<<"3","0">>), None, None)>>],
      \* no video stream at all
      [streams |-> <<AudioStream>>] }

NoProbe == [streams |-> <<>>]

\* run_ffprobe: Err (None) or a probe result; always Err when the file is
\* not there
ProbeOutcomes(f, file) ==
    IF is_file(f, file) THEN {None} \cup {Some(p) : p \in DriverProbes}
    ELSE {None}

Count(n, path) == IF path \in DOMAIN n THEN n[path] ELSE 0
Bump(n, path) ==
    [q \in DOMAIN n \cup {path} |-> Count(n, q) + (IF q = path THEN 1 ELSE 0)]
NoCount == [q \in {} |-> 0]

-----------------------------------------------------------------------------
(* main.                                                                   *)

Init ==
    /\ \E files \in SUBSET FilePool :
          /\ Cardinality(files) <= MaxFiles
          /\ fs = MkFs(files, {DirD, DirDS})
    /\ fs0 = fs
    /\ args \in SeqsUpTo(ArgPool, MaxArgs)
    /\ video_files = <<>>
    /\ idx = 0
    /\ pc = "start"
    /\ exit = "running"
    /\ calls = <<>>
    /\ out = <<>>
    /\ probe = NoProbe
    /\ nprobe = NoCount
    /\ nrename = NoCount
    /\ nmeasure = NoCount

\* no argument: the usage text, then exit(1)
Usage ==
    /\ pc = "start"
    /\ args = <<>>
    /\ out' = <<[t |-> "Usage"]>>
    /\ pc' = "exit"
    /\ exit' = "failure"
    /\ UNCHANGED <<fs, fs0, args, video_files, idx, calls, probe,
                   nprobe, nrename, nmeasure>>

\* collect_video_files finds nothing: exit(1)
NoCandidates ==
    /\ pc = "start"
    /\ args # <<>>
    /\ \E asc \in BOOLEAN :
          /\ collect_video_files(fs, args, asc) = <<>>
          /\ calls' = <<[fn |-> "collect_video_files", ret |-> <<>>]>>
    /\ out' = CollectWarnings(fs, args)
    /\ pc' = "exit"
    /\ exit' = "failure"
    /\ UNCHANGED <<fs, fs0, args, video_files, idx, probe,
                   nprobe, nrename, nmeasure>>

\* collect_video_files finds candidates; they are sorted
Discover ==
    /\ pc = "start"
    /\ args # <<>>
    /\ \E asc \in BOOLEAN :
          LET found == collect_video_files(fs, args, asc)
          IN /\ found # <<>>
             /\ video_files' = sort_by(found)
             /\ calls' = <<[fn |-> "collect_video_files", ret |-> found]>>
    /\ out' = CollectWarnings(fs, args)
    /\ idx' = 1
    /\ pc' = "loop"
    /\ UNCHANGED <<fs, fs0, args, exit, probe, nprobe, nrename, nmeasure>>

InLoop == pc = "loop" /\ idx <= Len(video_files)
File == video_files[idx]
Processing == [t |-> "Processing", file |-> File]
ProbeCall(ok) == [fn |-> "run_ffprobe", file |-> File, ok |-> ok]

\* a failed probe ends the run
ProbeFailed_Aborts ==
    /\ InLoop
    /\ None \in ProbeOutcomes(fs, File)
    /\ calls' = <<ProbeCall(FALSE)>>
    /\ out' = <<Processing, [t |-> "Failed", file |-> File]>>
    /\ probe' = NoProbe
    /\ nprobe' = Bump(nprobe, File)
    /\ pc' = "exit"
    /\ exit' = "failure"
    /\ UNCHANGED <<fs, fs0, args, video_files, idx, nrename, nmeasure>>

\* a failed probe is tried again
ProbeFailed_Retries ==
    /\ InLoop
    /\ None \in ProbeOutcomes(fs, File)
    /\ calls' = <<ProbeCall(FALSE)>>
    /\ out' = <<Processing, [t |-> "Failed", file |-> File]>>
    /\ probe' = NoProbe
    /\ nprobe' = Bump(nprobe, File)
    /\ UNCHANGED <<fs, fs0, args, video_files, idx, pc, exit, nrename, nmeasure>>

\* run_ffprobe fails: a notice, and on to the next file
ProbeFailed ==
    /\ InLoop
    /\ None \in ProbeOutcomes(fs, File)
    /\ calls' = <<ProbeCall(FALSE)>>
    /\ out' = <<Processing, [t |-> "Failed", file |-> File]>>
    /\ probe' = NoProbe
    /\ nprobe' = Bump(nprobe, File)
    /\ idx' = idx + 1
    /\ UNCHANGED <<fs, fs0, args, video_files, pc, exit, nrename, nmeasure>>

\* the codec is AV1 and the rename succeeds
MarkAV1 ==
    /\ InLoop
    /\ \E r \in ProbeOutcomes(fs, File), io_ok \in BOOLEAN :
          /\ r.some
          /\ IsAV1(CodecOf(r.v))
          /\ LET res == rename_with_suffix(fs, File, AV1_SUFFIX, io_ok)
             IN /\ res.ok
                /\ fs' = res.fs
                /\ out' = <<Processing>> \o res.out
                /\ calls' = <<ProbeCall(TRUE),
                              [fn |-> "rename_with_suffix", file |-> File,
                               suffix |-> AV1_SUFFIX, ok |-> TRUE]>>
          /\ probe' = r.v
    /\ nprobe' = Bump(nprobe, File)
    /\ nrename' = Bump(nrename, File)
    /\ idx' = idx + 1
    /\ UNCHANGED <<fs0, args, video_files, pc, exit, nmeasure>>

\* the codec is AV1 and the rename fails: main returns the error
RenameFailed ==
    /\ InLoop
    /\ \E r \in ProbeOutcomes(fs, File), io_ok \in BOOLEAN :
          /\ r.some
          /\ IsAV1(CodecOf(r.v))
          /\ LET res == rename_with_suffix(fs, File, AV1_SUFFIX, io_ok)
             IN /\ ~res.ok
                /\ fs' = res.fs
                /\ out' = <<Processing>> \o res.out
                           \o <<[t |-> "Error", err |-> res.err]>>
                /\ calls' = <<ProbeCall(TRUE),
                              [fn |-> "rename_with_suffix", file |-> File,
                               suffix |-> AV1_SUFFIX, ok |-> FALSE]>>
          /\ probe' = r.v
    /\ nprobe' = Bump(nprobe, File)
    /\ nrename' = Bump(nrename, File)
    /\ pc' = "exit"
    /\ exit' = "failure"
    /\ UNCHANGED <<fs0, args, video_files, idx, nmeasure>>

\* any other codec: calculate_bpp, for the line it prints
Measure ==
    /\ InLoop
    /\ \E r \in ProbeOutcomes(fs, File) :
          /\ r.some
          /\ ~IsAV1(CodecOf(r.v))
          /\ LET res == calculate_bpp(r.v)
             IN /\ out' = <<Processing>> \o res.out
                /\ calls' = <<ProbeCall(TRUE),
                              [fn |-> "calculate_bpp", file |-> File,
                               ret |-> res.ret]>>
          /\ probe' = r.v
    /\ nprobe' = Bump(nprobe, File)
    /\ nmeasure' = Bump(nmeasure, File)
    /\ idx' = idx + 1
    /\ UNCHANGED <<fs, fs0, args, video_files, pc, exit, nrename>>

\* after the loop: the bell, the key press, Ok(())
Finish ==
    /\ pc = "loop"
    /\ idx > Len(video_files)
    /\ out' = <<[t |-> "Bell"], [t |-> "PressAnyKey"]>>
    /\ calls' = <<>>
    /\ probe' = NoProbe
    /\ pc' = "exit"
    /\ exit' = "success"
    /\ UNCHANGED <<fs, fs0, args, video_files, idx, nprobe, nrename, nmeasure>>

\* the program is invoked again with the same arguments
Rerun ==
    /\ pc = "exit"
    /\ pc' = "start"
    /\ exit' = "running"
    /\ video_files' = <<>>
    /\ idx' = 0
    /\ calls' = <<>>
    /\ out' = <<>>
    /\ probe' = NoProbe
    /\ nprobe' = NoCount
    /\ nrename' = NoCount
    /\ nmeasure' = NoCount
    /\ UNCHANGED <<fs, fs0, args>>

Next ==
    \/ Usage
    \/ NoCandidates
    \/ Discover
    \/ ProbeFailed
    \/ MarkAV1
    \/ RenameFailed
    \/ Measure
    \/ Finish
    \/ Rerun

Spec == Init /\ [][Next]_vars

-----------------------------------------------------------------------------
(* The functions on their own: one call of calculate_bpp,                  *)
(* rename_with_suffix or collect_video_files on inputs drawn from wider    *)
(* sets than a run of main meets.  fs0 is the filesystem before the call.  *)

Name_mp4 == <<"m","p","4">>
Name_mp4_AV1 == <<"m","p","4","_","A","V","1">>
Name_dot_mkv == <<".","m","k","v">>
Name_v_mkv == <<"v",".","m","k","v">>
Name_3_ts == <<"3",".","t","s">>

DirDSE == <<Str_d, Str_s, Str_e>>
\* a directory named like a video
DirVideo == <<Str_d, Name_v_mkv>>

UnitFilePool ==
    FilePool \cup
    { <<Str_d, Name_n_txt>>, <<Str_d, Name_mp4>>, <<Str_d, Name_mp4_AV1>>,
      <<Str_d, Name_dot_mkv>>, <<Str_d, Str_s, Str_e, Name_3_ts>>,
      <<Str_d, Name_v_mkv, Name_3_ts>> }

UnitDirs == { {DirD, DirDS, DirDSE}, {DirD, DirDS, DirDSE, DirVideo} }

\* the filesystems of the calls: every file lies in a directory
UnitFilesystems ==
    { MkFs(files, dirs) :
        files \in {F \in SUBSET UnitFilePool : Cardinality(F) <= MaxFiles},
        dirs \in UnitDirs } \
    { MkFs(files, {DirD, DirDS, DirDSE}) :
        files \in {F \in SUBSET UnitFilePool :
                      <<Str_d, Name_v_mkv, Name_3_ts>> \in F} }

UnitArgPool == { DirD, DirDS, DirVideo, <<Str_d, Name_2_mp4>>,
                 <<Str_d, Name_n_txt>>, Missing }

UnitRenamePaths == UnitFilePool \cup { Missing, DirDS }

UnitSuffixes == { AV1_SUFFIX, <<"_","x">> }

UnitRates ==
    { None, Some(Str_25_1), Some(<<"3","0">>), Some(<<"0","/","1">>),
      Some(<<"1","/","0">>), Some(<<"-","2","5","/","1">>), Some(<<"x">>),
      Some(<<"n","a","n">>), Some(<<"i","n","f">>), Some(<<"2","5","/","2">>),
      Some(<<"2",".","5","e","1">>) }

UnitBitrates ==
    { None, Some(Str_8000000), Some(<<"0">>), Some(<<"-","1">>), Some(<<"x">>),
      Some(<<"n","a","n">>) }

UnitTags ==
    { None, Some([k \in {} |-> <<>>]),
      Some([BPS |-> <<"4","0","0","0","0","0","0">>]), Some([BPS |-> <<"x">>]),
      Some([DURATION |-> <<"1">>]) }

\* the streams that may stand before the last one
UnitPrefixes ==
    { <<>>, <<AudioStream>>,
      <<Stream(Some("video"), Some(<<"h","2","6","4">>), None, Some(360),
               Some(Str_25_1), Some(Str_8000000), None)>>,
      <<Stream(Some("video"), Some(<<"h","2","6","4">>), Some(640), Some(360),
               Some(Str_25_1), Some(<<"1","0","0","0","0","0","0">>), None)>> }

UnitStreams ==
    { Stream(ct, None, w, h, fr, br, tg) :
        ct \in {Some("video"), Some("audio")},
        w \in {None, Some(0), Some(1920)},
        h \in {None, Some(0), Some(1080)},
        fr \in UnitRates, br \in UnitBitrates, tg \in UnitTags }

UnitProbes ==
    { [streams |-> pre \o <<st>>] : pre \in UnitPrefixes, st \in UnitStreams }

\* pc names the function to call; probe, or fs and args, hold its arguments
\* (for rename_with_suffix, args is the one path to rename)
InitUnit ==
    /\ \/ /\ pc = "bpp"
          /\ probe \in UnitProbes
          /\ fs = MkFs({}, {})
          /\ args = <<>>
       \/ /\ pc = "rename"
          /\ probe = NoProbe
          /\ fs \in UnitFilesystems
          /\ args \in {<<path>> : path \in UnitRenamePaths}
       \/ /\ pc = "collect"
          /\ probe = NoProbe
          /\ fs \in UnitFilesystems
          /\ args \in SeqsUpTo(UnitArgPool, MaxArgs)
    /\ fs0 = fs
    /\ video_files = <<>>
    /\ idx = 0
    /\ exit = "running"
    /\ calls = <<>>
    /\ out = <<>>
    /\ nprobe = NoCount
    /\ nrename = NoCount
    /\ nmeasure = NoCount

CallCalculateBpp ==
    /\ pc = "bpp"
    /\ LET res == calculate_bpp(probe)
       IN /\ calls' = <<[fn |-> "calculate_bpp", ret |-> res.ret]>>
          /\ out' = res.out
    /\ pc' = "returned"
    /\ UNCHANGED <<fs, fs0, args, video_files, idx, exit, probe,
                   nprobe, nrename, nmeasure>>

CallRenameWithSuffix ==
    /\ pc = "rename"
    /\ \E suffix \in UnitSuffixes, io_ok \in BOOLEAN :
          LET res == rename_with_suffix(fs, args[1], suffix, io_ok)
          IN /\ fs' = res.fs
             /\ calls' = <<[fn |-> "rename_with_suffix", file |-> args[1],
                            suffix |-> suffix, ok |-> res.ok]>>
             /\ out' = res.out
    /\ pc' = "returned"
    /\ UNCHANGED <<fs0, args, video_files, idx, exit, probe,
                   nprobe, nrename, nmeasure>>

CallCollectVideoFiles ==
    /\ pc = "collect"
    /\ \E asc \in BOOLEAN :
          LET found == collect_video_files(fs, args, asc)
          IN /\ video_files' = found
             /\ calls' = <<[fn |-> "collect_video_files", ret |-> found]>>
    /\ out' = CollectWarnings(fs, args)
    /\ pc' = "returned"
    /\ UNCHANGED <<fs, fs0, args, idx, exit, probe, nprobe, nrename, nmeasure>>

NextUnit ==
    \/ CallCalculateBpp
    \/ CallRenameWithSuffix
    \/ CallCollectVideoFiles

SpecUnit == InitUnit /\ [][NextUnit]_vars

-----------------------------------------------------------------------------
(* Properties.                                                             *)

Range(seq) == {seq[i] : i \in 1..Len(seq)}
Occurrences(seq, x) == Cardinality({i \in 1..Len(seq) : seq[i] = x})

Called(fn) == \E i \in 1..Len(calls) : calls[i].fn = fn
Printed(t) == \E i \in 1..Len(out) : out[i].t = t

\* the last step was a visit of the loop whose run_ffprobe failed / succeeded
ProbeFailedNow ==
    calls # <<>> /\ calls[1].fn = "run_ffprobe" /\ ~calls[1].ok
ProbeSucceededNow ==
    calls # <<>> /\ calls[1].fn = "run_ffprobe" /\ calls[1].ok
\* the last step attempted a rename, which failed
RenameFailedNow ==
    \E i \in 1..Len(calls) : calls[i].fn = "rename_with_suffix" /\ ~calls[i].ok
\* the last step's rename failed in the operating system, not at the check
\* of the target
IoErrorNow ==
    \E i \in 1..Len(out) : out[i].t = "Error" /\ out[i].err = "RenameFailed"
\* main has ended after discovery found candidates
RunEnded == pc = "exit" /\ video_files # <<>>

\* C1: a probe failure never aborts the batch.  The visit of a file whose
\* run_ffprobe fails prints the failure notice for that file, calls neither
\* rename_with_suffix nor calculate_bpp, prints no rename or BPP line and
\* leaves main in its loop; every file before the loop position has been
\* probed; and a run in which no rename failed ends with exit status
\* success after probing every entry of the candidate list.
C1_ProbeFailureNeverAborts ==
    /\ ProbeFailedNow =>
          /\ Len(calls) = 1
          /\ \E i \in 1..Len(out) :
                out[i].t = "Failed" /\ out[i].file = calls[1].file
          /\ ~Printed("Renamed") /\ ~Printed("BPP")
          /\ pc = "loop" /\ exit = "running"
    /\ pc = "loop" =>
          \A i \in 1..(idx - 1) : Count(nprobe, video_files[i]) >= 1
    /\ (RunEnded /\ ~RenameFailedNow) =>
          /\ exit = "success"
          /\ idx = Len(video_files) + 1
          /\ \A f \in Range(video_files) :
                Count(nprobe, f) = Occurrences(video_files, f)

\* a run has ended with success in which the probe of one file failed (it
\* was probed, and neither renamed nor measured) and a later file of the
\* list was measured
C1_Witness ==
    /\ RunEnded /\ exit = "success"
    /\ \E i, j \in 1..Len(video_files) :
          /\ i < j
          /\ video_files[i] # video_files[j]
          /\ Count(nprobe, video_files[i]) = 1
          /\ Count(nrename, video_files[i]) = 0
          /\ Count(nmeasure, video_files[i]) = 0
          /\ Count(nmeasure, video_files[j]) = 1

\* C2: no file's failure affects any other file.  Whenever discovery found
\* at least one candidate, the run ends with exit status success and every
\* file of the sorted list has been probed, also when a rename failed
\* because its target exists (a rename that fails in the operating system
\* is left aside).
C2_NoFailureAffectsOthers ==
    (RunEnded /\ ~IoErrorNow) =>
       /\ exit = "success"
       /\ \A f \in Range(video_files) : Count(nprobe, f) >= 1

\* the target path as the claim states it: same directory, stem + suffix +
\* the original extension
TargetOf(path, suffix) ==
    LET name == file_name(path)
        d == LastDot(name)
    IN IF d <= 1 THEN Append(parent(path), name \o suffix)
       ELSE IF d = Len(name)
            THEN Append(parent(path), SubSeq(name, 1, d - 1) \o suffix)
            ELSE Append(parent(path),
                        SubSeq(name, 1, d - 1) \o suffix \o SubSeq(name, d, Len(name)))

RenameReturned ==
    pc = "returned" /\ calls # <<>> /\ calls[1].fn = "rename_with_suffix"

\* C3: renaming never overwrites.  When the target path exists at the call,
\* rename_with_suffix returns an error, prints no rename and leaves the
\* whole filesystem (the original and the file at the target included) as
\* it was; it returns Ok only when the target did not exist, and the
\* filesystem changes only when it returns Ok.
C3_RenameNeverOverwrites ==
    RenameReturned =>
       LET target == TargetOf(calls[1].file, calls[1].suffix)
       IN /\ target \in DOMAIN fs0 =>
                ~calls[1].ok /\ fs = fs0 /\ ~Printed("Renamed")
          /\ calls[1].ok => target \notin DOMAIN fs0
          /\ fs # fs0 => calls[1].ok

\* rename_with_suffix has returned from a call on an existing file whose
\* target path was occupied
C3_Witness ==
    /\ RenameReturned
    /\ is_file(fs0, calls[1].file)
    /\ is_file(fs0, TargetOf(calls[1].file, calls[1].suffix))
    /\ ~calls[1].ok

\* the files that a rename has moved: their content had another path when
\* the first run started
Moved == {p \in DOMAIN fs : fs[p].id # p}

\* C4: marking is idempotent across runs.  The path a rename with "_AV1"
\* produces satisfies should_skip_file; a moved file is in no candidate
\* list, of this run or a following one, and is never probed or renamed
\* again; and no file name carries the marker twice.
C4_MarkingIdempotent ==
    /\ \A i \in 1..Len(out) :
          out[i].t = "Renamed" => should_skip_file(out[i].to)
    /\ \A p \in Moved :
          /\ should_skip_file(p)
          /\ p \notin Range(video_files)
          /\ Count(nprobe, p) = 0
          /\ Count(nrename, p) = 0
    /\ \A p \in DOMAIN fs :
          ~ends_with(to_uppercase(file_stem(p).v), AV1_SUFFIX \o AV1_SUFFIX)

\* a following run has built its candidate list from inputs that name a
\* file an earlier run renamed, or a directory that contains it
C4_Witness ==
    /\ pc = "loop" /\ idx = 1
    /\ \E p \in Moved : \E i \in 1..Len(args) :
          args[i] = fs[p].id \/ IsPrefix(args[i], p)

\* the codec as the claim states it: the upper-cased codec name of the
\* first stream whose kind is "video", "UNKNOWN" when there is none
ClaimedCodec(p) ==
    LET videos == {i \in 1..Len(p.streams) : p.streams[i].codec_type = Some("video")}
        first == CHOOSE i \in videos : \A j \in videos : i <= j
    IN IF videos # {} /\ p.streams[first].codec_name.some
       THEN to_uppercase(p.streams[first].codec_name.v)
       ELSE <<"U","N","K","N","O","W","N">>

\* C5: the codec decides the branch.  After a successful probe, a file
\* whose codec is AV1 in any letter case goes to rename_with_suffix with
\* "_AV1", calculate_bpp is not called and no BPP line is printed; for any
\* other codec calculate_bpp is called and rename_with_suffix is not.
C5_CodecDecidesBranch ==
    ProbeSucceededNow =>
       /\ Len(calls) = 2
       /\ IF ClaimedCodec(probe) = <<"A","V","1">>
          THEN /\ calls[2].fn = "rename_with_suffix"
               /\ calls[2].file = calls[1].file
               /\ calls[2].suffix = <<"_","A","V","1">>
               /\ ~Called("calculate_bpp")
               /\ ~Printed("BPP")
          ELSE /\ calls[2].fn = "calculate_bpp"
               /\ ~Called("rename_with_suffix")
               /\ ~Printed("Renamed")

\* a file whose first video stream (behind an audio stream, without a size)
\* names its codec "Av1" has been renamed
C5_Witness ==
    /\ ProbeSucceededNow
    /\ Len(probe.streams) = 2
    /\ probe.streams[2].codec_name = Some(<<"A","v","1">>)
    /\ Called("rename_with_suffix")
    /\ Printed("Renamed")

\* the step renames the file the loop is at, a candidate whose codec is
\* AV1, to stem + "_AV1" + "." + extension in its own directory, and changes
\* nothing else
MarksCurrentFile ==
    /\ pc = "loop" /\ idx <= Len(video_files)
    /\ LET f == video_files[idx]
           t == Append(parent(f), file_stem(f).v \o <<"_","A","V","1">>
                                   \o <<".">> \o extension(f).v)
       IN /\ is_file(fs, f)
          /\ extension(f).some
          /\ to_lowercase(extension(f).v) \in VIDEO_EXTENSIONS
          /\ ~ends_with(to_lowercase(file_stem(f).v), <<"_","a","v","1">>)
          /\ calls'[1].fn = "run_ffprobe" /\ calls'[1].ok
          /\ ClaimedCodec(probe') = <<"A","V","1">>
          /\ t \notin DOMAIN fs
          /\ DOMAIN fs' = (DOMAIN fs \ {f}) \cup {t}
          /\ fs'[t] = fs[f]
          /\ \A p \in DOMAIN fs \ {f} : fs'[p] = fs[p]

\* C6: the only filesystem effect of a run is the rename of files
\* classified as AV1.  Every step either leaves the filesystem as it is, or
\* moves the one candidate it classified as AV1 to stem + "_AV1" + "." +
\* extension in the same directory; no other path changes, and no file is
\* created, deleted or overwritten.
C6_OnlyAV1Renames == [][fs' = fs \/ MarksCurrentFile]_vars

\* a run has ended in which one file was renamed while an already marked
\* file and a measured file kept their paths
C6_Witness ==
    /\ RunEnded /\ exit = "success"
    /\ Moved # {}
    /\ \E q \in DOMAIN fs \ Moved : should_skip_file(q) /\ is_file(fs, q)
    /\ \E r \in DOMAIN fs \ Moved : Count(nmeasure, r) = 1

BppReturned == pc = "returned" /\ calls # <<>> /\ calls[1].fn = "calculate_bpp"

\* C7: calculate_bpp returns a value only when width, height, frame rate and
\* bitrate are all strictly positive.  Without a video stream that has a
\* width and a height, without a frame rate that parses, or with any of
\* width, height, frame rate, bitrate (bit_rate, else tag BPS, else 0)
\* <= 0 it returns nothing; in every other case it returns
\* bitrate / (width * height * fps), which is strictly positive.
C7_BppOnlyWhenPositive ==
    BppReturned =>
       LET ret == calls[1].ret
           sized == FindSizedVideo(probe.streams)
           Value(w, h, fps, bitrate) ==
               IF FLe(w, FZero) \/ FLe(h, FZero) \/ FLe(fps, FZero)
                  \/ FLe(bitrate, FZero)
               THEN ret = None
               ELSE /\ ret = Some(FDiv(bitrate, FMul(FMul(w, h), fps)))
                    /\ FLt(FZero, ret.v)
           Rate(st, fps) ==
               IF ~fps.some THEN ret = None
               ELSE Value(U32ToF64(st.width.v), U32ToF64(st.height.v), fps.v,
                          StreamBitrate(st))
       IN IF ~sized.some \/ ~sized.v.r_frame_rate.some THEN ret = None
          ELSE Rate(sized.v, parse_frame_rate(sized.v.r_frame_rate.v))

\* C8: an unmeasurable metric is silently omitted.  Whenever calculate_bpp
\* returns no value, no BPP line has been printed for the file.
C8_UnmeasurableOmitted ==
    \A i \in 1..Len(calls) :
       (calls[i].fn = "calculate_bpp" /\ ~calls[i].ret.some) => ~Printed("BPP")

\* eligibility as the claim states it: a regular file that is an input or
\* lies below an input directory, with a video extension and a base name
\* that does not end with the marker, both in any letter case
ClaimedEligible(p) ==
    /\ p \in DOMAIN fs /\ fs[p].kind = "file"
    /\ \E i \in 1..Len(args) :
          \/ args[i] = p
          \/ /\ args[i] \in DOMAIN fs /\ fs[args[i]].kind = "dir"
             /\ Len(args[i]) < Len(p) /\ IsPrefix(args[i], p)
    /\ extension(p).some /\ to_lowercase(extension(p).v) \in VIDEO_EXTENSIONS
    /\ ~ends_with(to_lowercase(file_stem(p).v), <<"_","a","v","1">>)

CollectReturned ==
    pc = "returned" /\ calls # <<>> /\ calls[1].fn = "collect_video_files"

\* C9: discovery returns exactly the eligible files.  A path is in the
\* result of collect_video_files if and only if it is eligible as the claim
\* states it; inputs that do not exist contribute nothing and do not stop
\* the collection.
C9_DiscoveryExact ==
    CollectReturned =>
       \A p \in DOMAIN fs \cup Range(video_files) \cup Range(args) :
          p \in Range(video_files) <=> ClaimedEligible(p)

\* collect_video_files has returned a file three levels deep and one with
\* an upper-case extension, from inputs of which one does not exist, with a
\* non-video file lying in the input directory
C9_Witness ==
    /\ CollectReturned
    /\ Missing \in Range(args)
    /\ args[Len(args)] = DirD
    /\ <<Str_d, Str_s, Str_e, Name_3_ts>> \in Range(video_files)
    /\ <<Str_d, Str_s, Name_10_MKV>> \in Range(video_files)
    /\ <<Str_d, Name_n_txt>> \in DOMAIN fs

\* the inputs that name path f or a directory above it
Reaching(f) == {i \in 1..Len(args) : IsPrefix(args[i], f)}

InRun == pc \in {"loop", "exit"} /\ video_files # <<>>

\* C10 as stated: every eligible file is a candidate once, is probed
\* exactly once, and is then renamed at most once or measured at most
\* once, for every list of inputs.
C10_ExactlyOnce ==
    InRun =>
       \A f \in Range(video_files) :
          /\ Occurrences(video_files, f) = 1
          /\ Count(nprobe, f) <= 1
          /\ pc = "exit" => Count(nprobe, f) = 1
          /\ Count(nrename, f) + Count(nmeasure, f) <= 1

\* C10, amended: there is no retry.  A file is a candidate once for every
\* input that names it or a directory above it; it is probed at most once
\* per candidate entry, and once per entry when the run ends with success;
\* each probe is followed by at most one rename or one measurement; and no
\* file is renamed twice.  So a file that one input reaches is a candidate
\* once, probed at most once and renamed or measured at most once.
C10_NoRetry ==
    InRun =>
       \A f \in Range(video_files) :
          LET k == Cardinality(Reaching(f))
          IN /\ Occurrences(video_files, f) = k
             /\ Count(nprobe, f) <= k
             /\ (pc = "exit" /\ exit = "success") => Count(nprobe, f) = k
             /\ Count(nrename, f) + Count(nmeasure, f) <= Count(nprobe, f)
             /\ Count(nrename, f) <= 1

\* a run over inputs that reach every file once has ended with success
\* after one file was renamed, one measured and the probe of one failed
C10_Witness ==
    /\ RunEnded /\ exit = "success"
    /\ \A f \in Range(video_files) : Cardinality(Reaching(f)) = 1
    /\ \E f, g, h \in Range(video_files) :
          /\ Count(nrename, f) = 1 /\ Count(nprobe, f) = 1
          /\ Count(nmeasure, g) = 1 /\ Count(nprobe, g) = 1
          /\ Count(nprobe, h) = 1
          /\ Count(nrename, h) = 0 /\ Count(nmeasure, h) = 0
=============================================================================
